---- MODULE Spec2Model ----
(***************************************************************************)
(* scap-client command line interface (src/scap_client/cli.py) talking to  *)
(* the Task/Result Service over the bus.                                   *)
(*                                                                         *)
(* One behaviour is one process invocation of cli.py: main() connects,     *)
(* parses the command line, dispatches one handler, and the handler makes  *)
(* blocking remote calls.  The Service (scap_client.dbus_daemon, whose     *)
(* source is not part of src/) runs concurrently; it is modelled from the  *)
(* specification's sections 3, 4.1 and 6.                                  *)
(***************************************************************************)
EXTENDS Integers, Sequences, FiniteSets, TLC

\* ---------------------------------------------------------------- bounds
\* Number of task identifiers the Service may ever assign.
MaxTasks == 2

\* ------------------------------------------------------------- constants
\* Python's None (args.task_id / args.result_id when the optional
\* positional is absent, get_dbus_interface()'s failure value).
None == -1

\* First result identifier the Service assigns within a task.
FirstResultId == 10

TaskIds == 1..MaxTasks

Titles == {"Scan A", "Scan B"}

\* choices=["html", "arf"]
Formats == {"html", "arf"}

TaskStates == {"Planned", "Evaluating", "Completed", "Failed"}

\* The artifacts one evaluation pass may produce, in production order.
Productions == {<<"arf">>, <<"html">>, <<"arf", "html">>}

VARIABLES
    argv,        \* sys.argv[1:], the command line of this invocation
    pc,          \* position of the client process
    dbus_iface,  \* main()'s dbus_iface: "unset", "iface" or "None"
    args,        \* the argparse Namespace
    task_ids,    \* cli_task's task_ids
    idx,         \* position of the for loop in task_ids (1-based)
    out,         \* lines printed to standard output
    err,         \* lines written to standard error
    exit_status, \* process exit status, None while running
    fault,       \* exception that escaped main(), "none" if none did
    calls,       \* history: remote calls issued, with their outcome
    handlers,    \* history: subcommand handlers entered
    connects,    \* history: number of get_dbus_interface() calls
    inflight,    \* requests sent to the Service and not yet served
    reply,       \* reply sent by the Service and not yet received
    tasks        \* Service: every task identifier's record

clientVars == <<argv, pc, dbus_iface, args, task_ids, idx, out, err,
                exit_status, fault, calls, handlers, connects>>
busVars == <<inflight, reply>>
serviceVars == <<tasks>>
vars == <<argv, pc, dbus_iface, args, task_ids, idx, out, err, exit_status,
          fault, calls, handlers, connects, inflight, reply, tasks>>

\* ------------------------------------------------------- pure functions

\* type=int of argparse: int(s); None stands for ValueError.
IntOf(s) ==
    CASE s = "1" -> 1
      [] s = "2" -> 2
      [] s = "3" -> 3
      [] s = "4" -> 4
      [] s = "10" -> 10
      [] s = "11" -> 11
      [] OTHER -> None

\* "%i" % n
StrOf(n) ==
    CASE n = 1 -> "1"
      [] n = 2 -> "2"
      [] n = 3 -> "3"
      [] n = 4 -> "4"
      [] n = 10 -> "10"
      [] n = 11 -> "11"
      [] OTHER -> "?"

\* print("%i\t\t%s\t\t..." % (task_id, title))
SummaryLine(task_id, title) == <<StrOf(task_id), "\t\t", title, "\t\t...">>

\* print("ID:\t%i" % (args.task_id))
IdLine(task_id) == <<"ID:\t", StrOf(task_id)>>

\* print("Title:\t%s" % (title))
TitleLine(title) == <<"Title:\t", title>>

\* print("Error: Failed to connect to SCAP Client dbus interface.")
ConnErrorLine == <<"Error: Failed to connect to SCAP Client dbus interface.">>

\* argparse's parser.error(): usage on stderr, then the error line.
UsageLines == <<<<"usage:">>, <<"error:">>>>

\* The interpreter's report of an exception nobody caught.
Traceback(exc) == <<<<"Traceback (most recent call last):">>, <<exc>>>>

NoArgs == [ok |-> FALSE, action |-> "", task_id |-> None,
           result_id |-> None, format |-> ""]

Namespace(action, task_id, result_id, format) ==
    [ok |-> TRUE, action |-> action, task_id |-> task_id,
     result_id |-> result_id, format |-> format]

\* parser.parse_args(): the Namespace, or NoArgs when argparse rejects
\* the command line (it then exits with status 2).
ParseArgs(a) ==
    IF Len(a) = 0 THEN NoArgs
    ELSE IF a[1] = "task" THEN
        IF Len(a) = 1 THEN Namespace("task", None, None, "")
        ELSE IF Len(a) = 2 /\ IntOf(a[2]) # None
            THEN Namespace("task", IntOf(a[2]), None, "")
        ELSE NoArgs
    ELSE IF a[1] = "status" THEN
        IF Len(a) = 1 THEN Namespace("status", None, None, "") ELSE NoArgs
    ELSE IF a[1] = "result" THEN
        IF Len(a) = 2 /\ IntOf(a[2]) # None
            THEN Namespace("result", IntOf(a[2]), None, "arf")
        ELSE IF Len(a) = 3 /\ IntOf(a[2]) # None /\ IntOf(a[3]) # None
            THEN Namespace("result", IntOf(a[2]), IntOf(a[3]), "arf")
        ELSE IF Len(a) = 4 /\ IntOf(a[2]) # None /\ IntOf(a[3]) # None
                /\ a[4] \in Formats
            THEN Namespace("result", IntOf(a[2]), IntOf(a[3]), a[4])
        ELSE NoArgs
    ELSE NoArgs

\* Command lines tried.
Argvs ==
    {<<>>, <<"task">>, <<"task", "x">>, <<"status">>,
     <<"result", "1">>, <<"result", "1", "10">>,
     <<"result", "1", "10", "arf">>, <<"result", "1", "10", "html">>,
     <<"result", "1", "11", "html">>}
    \cup {<<"task", StrOf(i)>> : i \in TaskIds}

\* get_dbus_interface(): bus is what dbus.SessionBus() gave, obj what
\* bus.get_object() gave.
get_dbus_interface(bus, obj) ==
    IF bus = "None" THEN "None"
    ELSE IF obj = "None" THEN "None"
    ELSE "iface"

\* --------------------------------------------------------------- Service

NoTask == [title |-> "", state |-> "Unassigned", results |-> <<>>]
RetiredTask == [title |-> "", state |-> "Retired", results |-> <<>>]

Known(id) == id \in TaskIds /\ tasks[id].state \in TaskStates

KnownIds == {id \in TaskIds : Known(id)}

\* Identifiers are assigned monotonically and never reused.
NextTaskId ==
    IF \A id \in TaskIds : tasks[id].state # "Unassigned" THEN None
    ELSE CHOOSE id \in TaskIds :
            /\ tasks[id].state = "Unassigned"
            /\ \A j \in TaskIds : j < id => tasks[j].state # "Unassigned"

RECURSIVE Ascending(_)
Ascending(S) ==
    IF S = {} THEN <<>>
    ELSE LET m == CHOOSE x \in S : \A y \in S : x <= y
         IN <<m>> \o Ascending(S \ {m})

\* ListTaskIDs() -> ordered sequence of the known task identifiers.
ListTaskIDs == Ascending(KnownIds)

NoReply == [kind |-> "none", ids |-> <<>>, title |-> "", error |-> ""]

\* GetTaskTitle(task_id) -> string, or the NotFoundError fault.
GetTaskTitle(task_id) ==
    IF Known(task_id)
        THEN [kind |-> "title", ids |-> <<>>, title |-> tasks[task_id].title,
              error |-> ""]
        ELSE [kind |-> "error", ids |-> <<>>, title |-> "",
              error |-> "NotFoundError"]

\* GetResult(task_id, result_id, format): does that artifact exist?
HasResult(task_id, result_id, format) ==
    /\ Known(task_id)
    /\ \E k \in 1..Len(tasks[task_id].results) :
        /\ FirstResultId + k - 1 = result_id
        /\ tasks[task_id].results[k] = format

Init ==
    /\ argv \in Argvs
    /\ pc = "start"
    /\ dbus_iface = "unset"
    /\ args = NoArgs
    /\ task_ids = <<>>
    /\ idx = 1
    /\ out = <<>>
    /\ err = <<>>
    /\ exit_status = None
    /\ fault = "none"
    /\ calls = <<>>
    /\ handlers = <<>>
    /\ connects = 0
    /\ inflight = <<>>
    /\ reply = NoReply
    /\ tasks = [id \in TaskIds |-> NoTask]

\* A scan is planned: the next identifier is assigned.
CreateTask ==
    /\ NextTaskId # None
    /\ \E t \in Titles :
        tasks' = [tasks EXCEPT ![NextTaskId] =
                    [title |-> t, state |-> "Planned", results |-> <<>>]]
    /\ UNCHANGED <<clientVars, busVars>>

BeginEvaluation ==
    /\ \E id \in TaskIds :
        /\ tasks[id].state = "Planned"
        /\ tasks' = [tasks EXCEPT ![id].state = "Evaluating"]
    /\ UNCHANGED <<clientVars, busVars>>

\* An evaluation pass ends and appends its Results.
FinishEvaluation ==
    /\ \E id \in TaskIds, s \in {"Completed", "Failed"}, p \in Productions :
        /\ tasks[id].state = "Evaluating"
        /\ tasks' = [tasks EXCEPT ![id].state = s,
                                  ![id].results = tasks[id].results \o p]
    /\ UNCHANGED <<clientVars, busVars>>

\* The task leaves the active set; its identifier stays used.
RetireTask ==
    /\ \E id \in TaskIds :
        /\ Known(id)
        /\ tasks' = [tasks EXCEPT ![id] = RetiredTask]
    /\ UNCHANGED <<clientVars, busVars>>

\* The Service answers the oldest request on the bus.
ServeListTaskIDs ==
    /\ inflight # <<>>
    /\ Head(inflight).op = "ListTaskIDs"
    /\ reply.kind = "none"
    /\ reply' = [kind |-> "ids", ids |-> ListTaskIDs, title |-> "",
                 error |-> ""]
    /\ inflight' = Tail(inflight)
    /\ UNCHANGED <<clientVars, serviceVars>>

ServeGetTaskTitle ==
    /\ inflight # <<>>
    /\ Head(inflight).op = "GetTaskTitle"
    /\ reply.kind = "none"
    /\ reply' = GetTaskTitle(Head(inflight).arg)
    /\ inflight' = Tail(inflight)
    /\ UNCHANGED <<clientVars, serviceVars>>

\* ---------------------------------------------------------------- Client

\* sys.exit(code), or main() returning (code 0).
Exit(code) ==
    /\ pc' = "exited"
    /\ exit_status' = code

\* An exception leaves main(): the interpreter prints the traceback on
\* standard error and the process ends with status 1.
Uncaught(exc) ==
    /\ fault' = exc
    /\ err' = err \o Traceback(exc)
    /\ Exit(1)

\* dbus_iface.<op>(arg): the request goes on the bus and the caller blocks.
Call(op, arg) ==
    /\ inflight' = Append(inflight, [op |-> op, arg |-> arg])
    /\ calls' = Append(calls, [op |-> op, arg |-> arg, res |-> "pending",
                               title |-> ""])
    /\ reply' = reply

\* The blocked caller takes the reply off the bus.
Return ==
    /\ reply' = NoReply
    /\ calls' = [calls EXCEPT ![Len(calls)].res =
                    IF reply.kind = "error" THEN reply.error ELSE "ok",
                              ![Len(calls)].title = reply.title]
    /\ inflight' = inflight

\* main_connect without the sys.exit(1): the error is printed and main()
\* carries on with dbus_iface = None.
main_connect_no_exit ==
    /\ pc = "start"
    /\ connects' = connects + 1
    /\ \E bus \in {"bus", "None", "raise"}, obj \in {"obj", "None", "raise"} :
        IF bus = "raise" \/ (bus = "bus" /\ obj = "raise")
        THEN /\ Uncaught("DBusException")
             /\ UNCHANGED <<dbus_iface, out>>
        ELSE /\ dbus_iface' = get_dbus_interface(bus, obj)
             /\ out' = IF dbus_iface' = "None" THEN Append(out, ConnErrorLine)
                       ELSE out
             /\ pc' = "parse"
             /\ UNCHANGED <<err, exit_status, fault>>
    /\ UNCHANGED <<argv, args, task_ids, idx, calls, handlers, busVars,
                   serviceVars>>

\* dbus_iface = get_dbus_interface(); if it is None: print, sys.exit(1).
\* dbus.SessionBus() and bus.get_object() either give a value, give None,
\* or raise DBusException.
main_connect ==
    /\ pc = "start"
    /\ connects' = connects + 1
    /\ \E bus \in {"bus", "None", "raise"}, obj \in {"obj", "None", "raise"} :
        IF bus = "raise" \/ (bus = "bus" /\ obj = "raise")
        THEN /\ Uncaught("DBusException")
             /\ UNCHANGED <<dbus_iface, out>>
        ELSE /\ dbus_iface' = get_dbus_interface(bus, obj)
             /\ IF dbus_iface' = "None"
                THEN /\ out' = Append(out, ConnErrorLine)
                     /\ Exit(1)
                     /\ UNCHANGED <<err, fault>>
                ELSE /\ pc' = "parse"
                     /\ UNCHANGED <<out, err, exit_status, fault>>
    /\ UNCHANGED <<argv, args, task_ids, idx, calls, handlers, busVars,
                   serviceVars>>

\* parser = argparse.ArgumentParser(...) ... args = parser.parse_args()
main_parse ==
    /\ pc = "parse"
    /\ IF ParseArgs(argv).ok
       THEN /\ args' = ParseArgs(argv)
            /\ pc' = "dispatch"
            /\ UNCHANGED <<err, exit_status>>
       ELSE /\ err' = err \o UsageLines
            /\ Exit(2)
            /\ UNCHANGED args
    /\ UNCHANGED <<argv, dbus_iface, task_ids, idx, out, fault, calls,
                   handlers, connects, busVars, serviceVars>>

\* if args.action == "task": ... elif ... else: raise RuntimeError
main_dispatch ==
    /\ pc = "dispatch"
    /\ IF args.action \in {"task", "status", "result"}
       THEN /\ handlers' = Append(handlers,
                    CASE args.action = "task" -> "cli_task"
                      [] args.action = "status" -> "cli_status"
                      [] args.action = "result" -> "cli_results")
            /\ pc' = CASE args.action = "task" -> "cli_task"
                       [] args.action = "status" -> "cli_status"
                       [] args.action = "result" -> "cli_results"
            /\ UNCHANGED <<err, exit_status, fault>>
       ELSE /\ Uncaught("RuntimeError")
            /\ UNCHANGED handlers
    /\ UNCHANGED <<argv, dbus_iface, args, task_ids, idx, out, calls,
                   connects, busVars, serviceVars>>

\* cli_task that ignores args.task_id and always lists.
cli_task_call_always_lists ==
    /\ pc = "cli_task"
    /\ Call("ListTaskIDs", None)
    /\ pc' = "list_wait"
    /\ UNCHANGED <<argv, dbus_iface, args, task_ids, idx, out, err,
                   exit_status, fault, handlers, connects, serviceVars>>

\* cli_task up to its first remote call:
\* task_ids = dbus_iface.ListTaskIDs()  or
\* title = dbus_iface.GetTaskTitle(args.task_id)
cli_task_call ==
    /\ pc = "cli_task"
    /\ IF args.task_id = None
       THEN /\ Call("ListTaskIDs", None)
            /\ pc' = "list_wait"
       ELSE /\ Call("GetTaskTitle", args.task_id)
            /\ pc' = "show_wait"
    /\ UNCHANGED <<argv, dbus_iface, args, task_ids, idx, out, err,
                   exit_status, fault, handlers, connects, serviceVars>>

\* ListTaskIDs() returns: task_ids is bound and the loop starts.
cli_task_list_return ==
    /\ pc = "list_wait"
    /\ reply.kind # "none"
    /\ Return
    /\ IF reply.kind = "error"
       THEN /\ Uncaught(reply.error)
            /\ UNCHANGED <<task_ids, idx>>
       ELSE /\ task_ids' = reply.ids
            /\ idx' = 1
            /\ pc' = "loop"
            /\ UNCHANGED <<err, exit_status, fault>>
    /\ UNCHANGED <<argv, dbus_iface, args, out, handlers, connects,
                   serviceVars>>

\* cli_task's loop sending GetTaskTitle without waiting for the reply
\* (an asynchronous call): the next request goes out at once.
cli_task_loop_no_wait ==
    /\ pc = "loop"
    /\ IF idx <= Len(task_ids)
       THEN /\ Call("GetTaskTitle", task_ids[idx])
            /\ idx' = idx + 1
            /\ UNCHANGED <<pc, exit_status>>
       ELSE /\ Exit(0)
            /\ UNCHANGED <<calls, busVars, idx>>
    /\ UNCHANGED <<argv, dbus_iface, args, task_ids, out, err, fault,
                   handlers, connects, serviceVars>>

\* cli_task's loop stopping one element early.
cli_task_loop_off_by_one ==
    /\ pc = "loop"
    /\ IF idx < Len(task_ids)
       THEN /\ Call("GetTaskTitle", task_ids[idx])
            /\ pc' = "title_wait"
            /\ UNCHANGED exit_status
       ELSE /\ Exit(0)
            /\ UNCHANGED <<calls, busVars>>
    /\ UNCHANGED <<argv, dbus_iface, args, task_ids, idx, out, err, fault,
                   handlers, connects, serviceVars>>

\* for task_id in task_ids: title = dbus_iface.GetTaskTitle(task_id)
\* When the sequence is exhausted cli_task and main return.
cli_task_loop ==
    /\ pc = "loop"
    /\ IF idx <= Len(task_ids)
       THEN /\ Call("GetTaskTitle", task_ids[idx])
            /\ pc' = "title_wait"
            /\ UNCHANGED exit_status
       ELSE /\ Exit(0)
            /\ UNCHANGED <<calls, busVars>>
    /\ UNCHANGED <<argv, dbus_iface, args, task_ids, idx, out, err, fault,
                   handlers, connects, serviceVars>>

\* GetTaskTitle(task_id) returns inside the loop:
\* print("%i\t\t%s\t\t..." % (task_id, title))
cli_task_title_return ==
    /\ pc = "title_wait"
    /\ reply.kind # "none"
    /\ Return
    /\ IF reply.kind = "error"
       THEN /\ Uncaught(reply.error)
            /\ UNCHANGED <<idx, out>>
       ELSE /\ out' = Append(out, SummaryLine(task_ids[idx], reply.title))
            /\ idx' = idx + 1
            /\ pc' = "loop"
            /\ UNCHANGED <<err, exit_status, fault>>
    /\ UNCHANGED <<argv, dbus_iface, args, task_ids, handlers, connects,
                   serviceVars>>

\* GetTaskTitle(args.task_id) returns:
\* print("ID:\t%i" % (args.task_id)); print("Title:\t%s" % (title))
cli_task_show_return ==
    /\ pc = "show_wait"
    /\ reply.kind # "none"
    /\ Return
    /\ IF reply.kind = "error"
       THEN /\ Uncaught(reply.error)
            /\ UNCHANGED out
       ELSE /\ out' = out \o <<IdLine(args.task_id), TitleLine(reply.title)>>
            /\ Exit(0)
            /\ UNCHANGED <<err, fault>>
    /\ UNCHANGED <<argv, dbus_iface, args, task_ids, idx, handlers, connects,
                   serviceVars>>

\* def cli_status(dbus_iface, args): pass
cli_status ==
    /\ pc = "cli_status"
    /\ Exit(0)
    /\ UNCHANGED <<argv, dbus_iface, args, task_ids, idx, out, err, fault,
                   calls, handlers, connects, busVars, serviceVars>>

\* cli_results issuing a remote call of its own.
cli_results_fetches ==
    /\ pc = "cli_results"
    /\ Call("GetResult", args.task_id)
    /\ pc' = "result_wait"
    /\ UNCHANGED <<argv, dbus_iface, args, task_ids, idx, out, err,
                   exit_status, fault, handlers, connects, serviceVars>>

\* def cli_results(dbus_iface, args): pass
cli_results ==
    /\ pc = "cli_results"
    /\ Exit(0)
    /\ UNCHANGED <<argv, dbus_iface, args, task_ids, idx, out, err, fault,
                   calls, handlers, connects, busVars, serviceVars>>

\* ------------------------------------------------------------ behaviours

ClientStep ==
    \/ main_connect
    \/ main_parse
    \/ main_dispatch
    \/ cli_task_call
    \/ cli_task_list_return
    \/ cli_task_loop
    \/ cli_task_title_return
    \/ cli_task_show_return
    \/ cli_status
    \/ cli_results

Serve ==
    \/ ServeListTaskIDs
    \/ ServeGetTaskTitle

ServiceStep ==
    \/ CreateTask
    \/ BeginEvaluation
    \/ FinishEvaluation
    \/ RetireTask

Next ==
    \/ main_connect
    \/ main_parse
    \/ main_dispatch
    \/ cli_task_call
    \/ cli_task_list_return
    \/ cli_task_loop
    \/ cli_task_title_return
    \/ cli_task_show_return
    \/ cli_status
    \/ cli_results
    \/ ServeListTaskIDs
    \/ ServeGetTaskTitle
    \/ CreateTask
    \/ BeginEvaluation
    \/ FinishEvaluation
    \/ RetireTask

Spec == Init /\ [][Next]_vars

\* Every call is a blocking call on a running Service: the Service
\* answers, and the single-threaded client keeps running until it exits.
FairSpec == Spec /\ WF_vars(ClientStep) /\ WF_vars(Serve)

\* ---------------------------------------------------------------- claims

Exited == pc = "exited"

\* `task` without an id, and `task <id>`.
Listing == args.ok /\ args.action = "task" /\ args.task_id = None
Showing == args.ok /\ args.action = "task" /\ args.task_id # None

AllCallsOk == \A k \in 1..Len(calls) : calls[k].res = "ok"

\* Remote calls sent and not yet returned to the caller.
Outstanding == Len(inflight) + (IF reply.kind = "none" THEN 0 ELSE 1)

\* C1: when `task <id>` meets NotFoundError from GetTaskTitle, the client
\* ends with a one-line not-found message and a non-zero exit status, no
\* exception escapes main(), and neither the ID nor the Title line is
\* printed.
C1_NotFoundIsRendered ==
    (Exited /\ Showing /\ Len(calls) = 1 /\ calls[1].res = "NotFoundError")
        => /\ fault = "none"
           /\ exit_status # 0
           /\ Len(out) + Len(err) = 1
           /\ \A k \in 1..Len(out) : out[k][1] \notin {"ID:\t", "Title:\t"}

\* C2: in `task` without an id, no GetTaskTitle call for a listed id ends
\* in NotFoundError, whatever the Service does in between.
C2_ListedIdsAreFound ==
    Listing => \A k \in 1..Len(calls) : calls[k].res # "NotFoundError"

ConnectionFailed == dbus_iface = "None" \/ fault = "DBusException"

\* C3: when the connection to the Service fails, the failure is reported
\* once and the process has exited with status 1, with no handler entered,
\* no command line parsed and no remote call issued.
C3_ConnectFailureIsFatal ==
    ConnectionFailed =>
        /\ Exited
        /\ exit_status = 1
        /\ handlers = <<>>
        /\ args = NoArgs
        /\ calls = <<>>
        /\ inflight = <<>>
        /\ IF dbus_iface = "None"
           THEN out = <<ConnErrorLine>> /\ err = <<>>
           ELSE out = <<>> /\ err = Traceback("DBusException")

C3_Witness ==
    /\ dbus_iface = "None"
    /\ Exited
    /\ out = <<ConnErrorLine>>
    /\ argv = <<"task">>
    /\ KnownIds # {}

\* C4: `task` without an id ends having printed exactly one summary line
\* per id ListTaskIDs returned, in order, each with that id and its title,
\* and exits 0 (printing nothing for the empty sequence).
C4_OneLinePerListedId ==
    (Exited /\ Listing /\ Len(calls) >= 1 /\ calls[1].res = "ok")
        => /\ exit_status = 0
           /\ Len(out) = Len(task_ids)
           /\ \A k \in 1..Len(task_ids) :
                out[k] = SummaryLine(task_ids[k], calls[k + 1].title)

\* C5: `status` against a reachable Service never crashes and never ends
\* with nothing printed.
C5_StatusAlwaysPrints ==
    (Exited /\ args.ok /\ args.action = "status")
        => /\ fault = "none"
           /\ out # <<>>

\* C6: `result <task_id> <result_id> <format>` prints the artifact when the
\* Service holds it in that format, and otherwise ends in a one-line
\* not-found outcome with a non-zero exit status.
C6_ResultLookup ==
    (Exited /\ args.ok /\ args.action = "result" /\ args.result_id # None)
        => IF HasResult(args.task_id, args.result_id, args.format)
           THEN exit_status = 0 /\ out # <<>>
           ELSE exit_status # 0 /\ Len(out) + Len(err) = 1

\* C7: `task <id>` calls GetTaskTitle(id) once and never ListTaskIDs; when
\* the Service knows the id, the client prints the ID line with the
\* requested id, then the Title line with the string the Service returned,
\* and exits 0.
C7_ShowKnownTask ==
    Showing =>
        /\ Len(calls) <= 1
        /\ \A k \in 1..Len(calls) :
            calls[k].op = "GetTaskTitle" /\ calls[k].arg = IntOf(argv[2])
        /\ (Exited /\ Len(calls) = 1 /\ calls[1].res = "ok") =>
            /\ out = <<<<"ID:\t", argv[2]>>, <<"Title:\t", calls[1].title>>>>
            /\ calls[1].title \in Titles
            /\ Known(args.task_id) =>
                    tasks[args.task_id].title = calls[1].title
            /\ exit_status = 0
            /\ fault = "none"
            /\ err = <<>>

C7_Witness ==
    /\ Exited
    /\ argv = <<"task", "1">>
    /\ Known(1)
    /\ out = <<<<"ID:\t", "1">>, <<"Title:\t", "Scan A">>>>

\* C8: the client never has more than one remote call outstanding, it is
\* blocked exactly while one is, and a call is issued only after every
\* earlier call has returned.
C8_Synchronous ==
    /\ Outstanding <= 1
    /\ Outstanding = 1 <=> pc \in {"list_wait", "title_wait", "show_wait"}
    /\ \A k \in 1..(Len(calls) - 1) : calls[k].res # "pending"
    /\ calls # <<>> =>
            (calls[Len(calls)].res = "pending" <=> Outstanding = 1)

C8_Witness ==
    /\ pc = "title_wait"
    /\ Len(calls) = 3
    /\ Outstanding = 1
    /\ Len(out) = 1

ReadOnlyOps == {"ListTaskIDs", "GetTaskTitle"}

C9_OnlyReadOnlyCalls ==
    /\ \A k \in 1..Len(calls) : calls[k].op \in ReadOnlyOps
    /\ \A k \in 1..Len(inflight) : inflight[k].op \in ReadOnlyOps
    /\ (args.ok /\ args.action \in {"status", "result"}) =>
            calls = <<>> /\ inflight = <<>>

C9_ClientStepsKeepService ==
    (clientVars' # clientVars \/ busVars' # busVars) => tasks' = tasks

\* C9: the client issues only ListTaskIDs and GetTaskTitle (`status` and
\* `result` issue nothing), and no step of the client or of the Service
\* answering it changes the Service's tasks, titles, states or results.
C9_ReadOnly == [](C9_OnlyReadOnlyCalls) /\ [][C9_ClientStepsKeepService]_vars

C9_Witness ==
    /\ Exited
    /\ Listing
    /\ Len(calls) = 3
    /\ AllCallsOk
    /\ \E id \in TaskIds : Len(tasks[id].results) = 2

C10_Safe ==
    /\ connects <= 1
    /\ pc # "start" => connects = 1
    /\ (args.ok \/ handlers # <<>> \/ calls # <<>>) =>
            connects = 1 /\ dbus_iface = "iface"
    /\ Len(handlers) <= 1
    /\ handlers # <<>> => args.ok
    /\ Listing => Len(calls) <= 1 + Len(task_ids)
    /\ (Exited /\ dbus_iface = "iface" /\ AllCallsOk) =>
            IF ParseArgs(argv).ok
            THEN Len(handlers) = 1 /\ exit_status = 0
            ELSE handlers = <<>> /\ calls = <<>> /\ exit_status = 2
    /\ (Exited /\ Listing /\ AllCallsOk) =>
            /\ Len(calls) = 1 + Len(task_ids)
            /\ calls[1].op = "ListTaskIDs"
            /\ \A k \in 1..Len(task_ids) :
                /\ calls[k + 1].op = "GetTaskTitle"
                /\ calls[k + 1].arg = task_ids[k]

====
